---- MODULE Spec2Model ----
(***************************************************************************)
(* Model of faculty/make_submission_notebook.py: the marker scan of        *)
(* _find_marker_indices and the slice / deep copy / normalise / write      *)
(* pipeline of extract_submission_notebook.                                *)
(*                                                                         *)
(* Text is a sequence of one-character strings.  Python objects that the   *)
(* program can alias (cell dicts, "outputs" lists) live in a heap and are  *)
(* named by their address; list indices are 0-based as in the source.      *)
(***************************************************************************)
EXTENDS Integers, Sequences, FiniteSets, TLC

\* Largest number of cells in the input notebook.
MaxCells == 3

\* Python's None for start_idx / end_idx / execution_count / the counts.
None == -1
\* A key that the cell dict does not have (heap address 0 / no count).
Absent == 0

---------------------------------------------------------------------------
\* Text helpers (str.splitlines, str.strip, "".join)

IsWhitespace(c) == c \in {" ", "\t", "\n"}

RECURSIVE LStrip(_)
LStrip(s) ==
    IF s = <<>> THEN <<>>
    ELSE IF IsWhitespace(Head(s)) THEN LStrip(Tail(s)) ELSE s

RECURSIVE RStrip(_)
RStrip(s) ==
    IF s = <<>> THEN <<>>
    ELSE IF IsWhitespace(s[Len(s)]) THEN RStrip(SubSeq(s, 1, Len(s) - 1)) ELSE s

\* A strip() that forgets the trailing side.
StripLeftOnly(s) == LStrip(s)

\* line.strip()
Strip(s) == RStrip(LStrip(s))

RECURSIVE SplitFrom(_, _, _, _)
SplitFrom(t, k, cur, acc) ==
    IF k > Len(t) THEN (IF cur = <<>> THEN acc ELSE Append(acc, cur))
    ELSE IF t[k] = "\n" THEN SplitFrom(t, k + 1, <<>>, Append(acc, cur))
    ELSE SplitFrom(t, k + 1, Append(cur, t[k]), acc)

\* text.splitlines(): no empty last line after a final line break
SplitLines(t) == SplitFrom(t, 1, <<>>, <<>>)

RECURSIVE Join(_)
Join(frags) == IF frags = <<>> THEN <<>> ELSE Head(frags) \o Join(Tail(frags))

\* _cell_source_as_text: a list source is joined, a str source is itself
CellSourceAsText(cell) ==
    IF cell.source.is_list THEN Join(cell.source.val) ELSE cell.source.val

\* _cell_has_marker_line
CellHasMarkerLine(cell, marker) ==
    LET lines == SplitLines(CellSourceAsText(cell))
    IN  \E n \in 1..Len(lines) : Strip(lines[n]) = marker

---------------------------------------------------------------------------
\* Inputs

START == <<"#", "S">>
FINISH == <<"#", "E">>

Str(t) == [is_list |-> FALSE, val |-> t]
Lst(f) == [is_list |-> TRUE, val |-> f]

Code(src, outs, ec) ==
    [cell_type |-> "code", source |-> src, has_outputs |-> TRUE,
     outputs |-> outs, execution_count |-> ec]
Markdown(src) ==
    [cell_type |-> "markdown", source |-> src, has_outputs |-> FALSE,
     outputs |-> <<>>, execution_count |-> Absent]

\* The cells an input notebook is built from (cell values, as on disk).
CellPool ==
    { Code(Str(<<"#", "S">>), <<"o1">>, 1),
      Markdown(Lst(<< <<" ", "#">>, <<"S", " ", "\n">>, <<"x">> >>)),
      Code(Str(<<"x", "\n", "#", "E", "\n">>), <<>>, None),
      Markdown(Str(<<"\t", "#", "E">>)),
      Code(Lst(<< <<"#", "S", "\n">>, <<"#", "E">> >>), <<"o1">>, None),
      Code(Str(<<"x", "#", "S">>), <<"o1", "o2">>, 2),
      Markdown(Str(<<"x", " ", "#", "E", " ", "x">>)) }

Documents == UNION { [1..n -> CellPool] : n \in 0..MaxCells }

StartMarkers == {START}
EndMarkers == {FINISH, START}

---------------------------------------------------------------------------
\* Heap of cell dicts and outputs lists

EmptyHeap == [cells |-> <<>>, lists |-> <<>>]

\* The value of the cell dict at address a, its outputs list read through.
CellValue(h, a) ==
    LET c == h.cells[a]
    IN  [cell_type |-> c.cell_type, source |-> c.source,
         has_outputs |-> c.outputs # Absent,
         outputs |-> IF c.outputs # Absent THEN h.lists[c.outputs] ELSE <<>>,
         execution_count |-> c.execution_count]

Values(h, addrs) == [k \in 1..Len(addrs) |-> CellValue(h, addrs[k])]

\* A fresh cell dict (and a fresh outputs list) holding the value v.
AllocCell(h, v) ==
    IF v.has_outputs
    THEN [cells |-> Append(h.cells,
                      [cell_type |-> v.cell_type, source |-> v.source,
                       outputs |-> Len(h.lists) + 1,
                       execution_count |-> v.execution_count]),
          lists |-> Append(h.lists, v.outputs)]
    ELSE [cells |-> Append(h.cells,
                      [cell_type |-> v.cell_type, source |-> v.source,
                       outputs |-> Absent,
                       execution_count |-> v.execution_count]),
          lists |-> h.lists]

RECURSIVE AllocAll(_, _, _)
AllocAll(h, vals, addrs) ==
    IF vals = <<>> THEN [heap |-> h, cells |-> addrs]
    ELSE LET h1 == AllocCell(h, Head(vals))
         IN  AllocAll(h1, Tail(vals), Append(addrs, Len(h1.cells)))

\* nbformat.read: the document's cells as fresh objects
ReadNotebook(doc) == AllocAll(EmptyHeap, doc, <<>>)

\* A copy that copies only the list of cells.
SliceCopy(h, addrs) == [heap |-> h, cells |-> addrs]

\* copy.deepcopy(selected_cells)
DeepCopy(h, addrs) == AllocAll(h, Values(h, addrs), <<>>)

---------------------------------------------------------------------------
\* Pure parts of _find_marker_indices and extract_submission_notebook

\* sum(_cell_has_marker_line(c, marker) for c in nb.cells)
CountMarker(h, addrs, marker) ==
    Cardinality({k \in 1..Len(addrs) : CellHasMarkerLine(CellValue(h, addrs[k]), marker)})

\* A loop body whose two tests are not exclusive.
LoopBodyNoElse(cell, idx, s, sm, em) ==
    LET s1 == IF s = None /\ CellHasMarkerLine(cell, sm) THEN idx ELSE s
    IN  IF s1 # None /\ CellHasMarkerLine(cell, em)
        THEN [start_idx |-> s1, end_idx |-> idx, brk |-> TRUE]
        ELSE [start_idx |-> s1, end_idx |-> None, brk |-> FALSE]

\* The body of "for i, cell in enumerate(nb.cells)" for the cell at index idx,
\* entered with start_idx = s (end_idx is None whenever the body is entered).
LoopBody(cell, idx, s, sm, em) ==
    IF s = None
    THEN IF CellHasMarkerLine(cell, sm)
         THEN [start_idx |-> idx, end_idx |-> None, brk |-> FALSE]
         ELSE [start_idx |-> s, end_idx |-> None, brk |-> FALSE]
    ELSE IF CellHasMarkerLine(cell, em)
         THEN [start_idx |-> s, end_idx |-> idx, brk |-> TRUE]
         ELSE [start_idx |-> s, end_idx |-> None, brk |-> FALSE]

\* The checks with the duplicate test moved in front of the not-found tests.
VerdictDuplicateFirst(s, e, xs, xe) ==
    IF xs > 1 \/ xe > 1 THEN "DuplicateMarker"
    ELSE IF s = None THEN "MarkerNotFoundStart"
    ELSE IF e = None THEN "MarkerNotFoundEnd"
    ELSE IF e <= s THEN "MarkerOrderError"
    ELSE "ok"

\* The duplicate test with "and" for "or".
VerdictBothDuplicated(s, e, xs, xe) ==
    IF s = None THEN "MarkerNotFoundStart"
    ELSE IF e = None THEN "MarkerNotFoundEnd"
    ELSE IF e <= s THEN "MarkerOrderError"
    ELSE IF xs > 1 /\ xe > 1 THEN "DuplicateMarker"
    ELSE "ok"

\* The checks without the document-wide count.
VerdictNoDuplicateCheck(s, e, xs, xe) ==
    IF s = None THEN "MarkerNotFoundStart"
    ELSE IF e = None THEN "MarkerNotFoundEnd"
    ELSE IF e <= s THEN "MarkerOrderError"
    ELSE "ok"

\* The checks that follow the loop, in the order the code makes them; xs and xe
\* are the document-wide counts, which the code computes only for the last test.
Verdict(s, e, xs, xe) ==
    IF s = None THEN "MarkerNotFoundStart"
    ELSE IF e = None THEN "MarkerNotFoundEnd"
    ELSE IF e <= s THEN "MarkerOrderError"
    ELSE IF xs > 1 \/ xe > 1 THEN "DuplicateMarker"
    ELSE "ok"

\* A slice that keeps the end marker cell when the markers are excluded.
SelectCellsOffByOne(cells, s, e, include) ==
    IF include THEN SubSeq(cells, s + 1, e + 1) ELSE SubSeq(cells, s + 2, e + 1)

\* nb.cells[start_idx : end_idx + 1] or nb.cells[start_idx + 1 : end_idx]
SelectCells(cells, s, e, include) ==
    IF include THEN SubSeq(cells, s + 1, e + 1) ELSE SubSeq(cells, s + 2, e)

ClearOutputs(h, a) ==
    [cells |-> [h.cells EXCEPT ![a].outputs = Len(h.lists) + 1],
     lists |-> Append(h.lists, <<>>)]

ClearExecutionCount(h, a) ==
    [h EXCEPT !.cells[a].execution_count = None]

\* A normalisation that does not look at cell_type.
NormalizeAnyCell(h, a, co, ce) ==
    LET h1 == IF co THEN ClearOutputs(h, a) ELSE h
    IN  IF ce THEN ClearExecutionCount(h1, a) ELSE h1

\* A normalisation that renumbers where it should clear.
NormalizeCellRenumber(h, a, co, ce) ==
    IF h.cells[a].cell_type = "code"
    THEN LET h1 == IF co THEN ClearOutputs(h, a) ELSE h
         IN  IF ce
             THEN [h1 EXCEPT !.cells[a].execution_count =
                      IF @ = None THEN 1 ELSE None]
             ELSE h1
    ELSE h

\* The body of "for cell in selected_cells" for the cell dict at address a.
NormalizeCell(h, a, co, ce) ==
    IF h.cells[a].cell_type = "code"
    THEN LET h1 == IF co THEN ClearOutputs(h, a) ELSE h
         IN  IF ce THEN ClearExecutionCount(h1, a) ELSE h1
    ELSE h

RECURSIVE NormalizeAll(_, _, _, _)
NormalizeAll(h, addrs, co, ce) ==
    IF addrs = <<>> THEN h
    ELSE NormalizeAll(NormalizeCell(h, Head(addrs), co, ce), Tail(addrs), co, ce)

---------------------------------------------------------------------------
\* State

VARIABLES
    input_file,              \* the cells of the notebook at input_path
    start_marker, end_marker,
    include_marker_cells, clear_outputs, clear_execution_counts,
    heap,                    \* every cell dict and outputs list in memory
    nb_cells,                \* nb.cells: addresses of the source cells
    pc,                      \* position in extract_submission_notebook
    i,                       \* the scan's loop index
    start_idx, end_idx,
    extra_starts, extra_ends,
    err,                     \* which ValueError was raised, or "none"
    selected_cells,          \* addresses of the selected cells
    j,                       \* how many selected cells are normalised
    output_file,             \* the notebook at output_path
    writes,                  \* how often output_path was written
    mutated                  \* the caller has changed an output cell

vars ==
    <<input_file, start_marker, end_marker, include_marker_cells, clear_outputs,
      clear_execution_counts, heap, nb_cells, pc, i, start_idx, end_idx,
      extra_starts, extra_ends, err, selected_cells, j, output_file, writes,
      mutated>>

args ==
    <<input_file, start_marker, end_marker, include_marker_cells, clear_outputs,
      clear_execution_counts>>

NoFile == [exists |-> FALSE, cells |-> <<>>]
\* A notebook left at output_path by an earlier run.
OldFile == [exists |-> TRUE, cells |-> <<Markdown(Str(<<"o", "l", "d">>))>>]

\* extract_submission_notebook is entered and nb is read (line 99).
Init ==
    /\ input_file \in Documents
    /\ start_marker \in StartMarkers
    /\ end_marker \in EndMarkers
    /\ include_marker_cells \in BOOLEAN
    /\ clear_outputs \in BOOLEAN
    /\ clear_execution_counts \in BOOLEAN
    /\ heap = ReadNotebook(input_file).heap
    /\ nb_cells = ReadNotebook(input_file).cells
    /\ pc = "scan"
    /\ i = 0
    /\ start_idx = None
    /\ end_idx = None
    /\ extra_starts = None
    /\ extra_ends = None
    /\ err = "none"
    /\ selected_cells = <<>>
    /\ j = 0
    /\ output_file \in {NoFile, OldFile}
    /\ writes = 0
    /\ mutated = FALSE

\* One iteration of the scan loop (lines 52-59).
ScanStep ==
    /\ pc = "scan"
    /\ i < Len(nb_cells)
    /\ LET r == LoopBody(CellValue(heap, nb_cells[i + 1]), i, start_idx,
                         start_marker, end_marker)
       IN  /\ start_idx' = r.start_idx
           /\ end_idx' = r.end_idx
           /\ IF r.brk
              THEN pc' = "validate" /\ i' = i
              ELSE pc' = "scan" /\ i' = i + 1
    /\ UNCHANGED <<args, heap, nb_cells, extra_starts, extra_ends, err,
                   selected_cells, j, output_file, writes, mutated>>

\* The loop runs out of cells.
ScanEnd ==
    /\ pc = "scan"
    /\ i = Len(nb_cells)
    /\ pc' = "validate"
    /\ UNCHANGED <<args, heap, nb_cells, i, start_idx, end_idx, extra_starts,
                   extra_ends, err, selected_cells, j, output_file, writes,
                   mutated>>

\* The checks made after the output file has already been opened for writing.
ValidateAfterOpen ==
    /\ pc = "validate"
    /\ LET xs == CountMarker(heap, nb_cells, start_marker)
           xe == CountMarker(heap, nb_cells, end_marker)
           v == Verdict(start_idx, end_idx, xs, xe)
       IN  /\ err' = IF v = "ok" THEN "none" ELSE v
           /\ pc' = IF v = "ok" THEN "slice" ELSE "failed"
           /\ extra_starts' = IF v \in {"ok", "DuplicateMarker"} THEN xs ELSE None
           /\ extra_ends' = IF v \in {"ok", "DuplicateMarker"} THEN xe ELSE None
    /\ output_file' = [exists |-> TRUE, cells |-> <<>>]
    /\ writes' = writes + 1
    /\ UNCHANGED <<args, heap, nb_cells, i, start_idx, end_idx, selected_cells,
                   j, mutated>>

\* The checks after the loop (lines 61-84): raise, or return the pair.
Validate ==
    /\ pc = "validate"
    /\ LET xs == CountMarker(heap, nb_cells, start_marker)
           xe == CountMarker(heap, nb_cells, end_marker)
           v == Verdict(start_idx, end_idx, xs, xe)
       IN  /\ err' = IF v = "ok" THEN "none" ELSE v
           /\ pc' = IF v = "ok" THEN "slice" ELSE "failed"
           /\ extra_starts' = IF v \in {"ok", "DuplicateMarker"} THEN xs ELSE None
           /\ extra_ends' = IF v \in {"ok", "DuplicateMarker"} THEN xe ELSE None
    /\ UNCHANGED <<args, heap, nb_cells, i, start_idx, end_idx, selected_cells,
                   j, output_file, writes, mutated>>

\* Lines 103-106.
Slice ==
    /\ pc = "slice"
    /\ selected_cells' = SelectCells(nb_cells, start_idx, end_idx, include_marker_cells)
    /\ pc' = "copy"
    /\ UNCHANGED <<args, heap, nb_cells, i, start_idx, end_idx, extra_starts,
                   extra_ends, err, j, output_file, writes, mutated>>

\* Line 109.
Copy ==
    /\ pc = "copy"
    /\ heap' = DeepCopy(heap, selected_cells).heap
    /\ selected_cells' = DeepCopy(heap, selected_cells).cells
    /\ pc' = "normalize"
    /\ UNCHANGED <<args, nb_cells, i, start_idx, end_idx, extra_starts,
                   extra_ends, err, j, output_file, writes, mutated>>

\* One iteration of the normalisation loop (lines 112-117).
NormalizeStep ==
    /\ pc = "normalize"
    /\ j < Len(selected_cells)
    /\ heap' = NormalizeCell(heap, selected_cells[j + 1], clear_outputs,
                             clear_execution_counts)
    /\ j' = j + 1
    /\ UNCHANGED <<args, nb_cells, pc, i, start_idx, end_idx, extra_starts,
                   extra_ends, err, selected_cells, output_file, writes, mutated>>

\* The notebook is assembled and written (lines 119-132).
Write ==
    /\ pc = "normalize"
    /\ j = Len(selected_cells)
    /\ output_file' = [exists |-> TRUE, cells |-> Values(heap, selected_cells)]
    /\ writes' = writes + 1
    /\ pc' = "done"
    /\ UNCHANGED <<args, heap, nb_cells, i, start_idx, end_idx, extra_starts,
                   extra_ends, err, selected_cells, j, mutated>>

\* After the run, a caller changes a cell of the output notebook in place:
\* it rebinds execution_count, or appends to the outputs list.
CallerMutate ==
    /\ pc = "done"
    /\ ~mutated
    /\ \E k \in 1..Len(selected_cells) :
         LET a == selected_cells[k]
         IN  \/ heap' = [heap EXCEPT !.cells[a].execution_count = 7]
             \/ /\ heap.cells[a].outputs # Absent
                /\ heap' = [heap EXCEPT !.lists[heap.cells[a].outputs] = Append(@, "m")]
    /\ mutated' = TRUE
    /\ UNCHANGED <<args, nb_cells, pc, i, start_idx, end_idx, extra_starts,
                   extra_ends, err, selected_cells, j, output_file, writes>>

Next ==
    \/ ScanStep
    \/ ScanEnd
    \/ Validate
    \/ Slice
    \/ Copy
    \/ NormalizeStep
    \/ Write
    \/ CallerMutate

Spec == Init /\ [][Next]_vars

---------------------------------------------------------------------------
\* The vocabulary of the claims, stated on the input document

\* text holds a line that is marker once its surrounding whitespace is dropped:
\* a..b is a whole line of text, p..q the marker inside it.
ContainsMarker(text, marker) ==
    \E a \in 1..Len(text), b \in 1..Len(text) :
        /\ a <= b
        /\ a = 1 \/ text[a - 1] = "\n"
        /\ b = Len(text) \/ text[b + 1] = "\n"
        /\ \A n \in a..b : text[n] # "\n"
        /\ \E p \in a..b :
             LET q == p + Len(marker) - 1
             IN  /\ q <= b
                 /\ SubSeq(text, p, q) = marker
                 /\ \A n \in (a..(p - 1)) \cup ((q + 1)..b) : text[n] \in {" ", "\t"}

\* 0-based indices of the cells of the input that contain the sentinels
StartCells ==
    {k \in 0..(Len(input_file) - 1) :
        ContainsMarker(CellSourceAsText(input_file[k + 1]), start_marker)}
EndCells ==
    {k \in 0..(Len(input_file) - 1) :
        ContainsMarker(CellSourceAsText(input_file[k + 1]), end_marker)}

Lowest(S) == CHOOSE m \in S : \A n \in S : m <= n

\* The end sentinel cells after the first start sentinel cell
EndCellsAfterStart ==
    IF StartCells = {} THEN {} ELSE {e \in EndCells : e > Lowest(StartCells)}

LocateReturned == pc \in {"slice", "copy", "normalize", "done"}
LocateRaised == pc = "failed"
LocateOver == LocateReturned \/ LocateRaised

\* Index in the input of the k-th (1-based) cell of the output
SourceIndex(k) == IF include_marker_cells THEN start_idx + k - 1 ELSE start_idx + k

---------------------------------------------------------------------------
\* C1

\* C1 as stated: 2 or more start sentinel cells make locate fail with
\* DuplicateMarker(start), and 2 or more end sentinel cells with
\* DuplicateMarker(end).
C1_AsStated ==
    LocateOver =>
        /\ Cardinality(StartCells) >= 2 =>
              LocateRaised /\ err = "DuplicateMarker" /\ extra_starts >= 2
        /\ Cardinality(EndCells) >= 2 =>
              LocateRaised /\ err = "DuplicateMarker" /\ extra_ends >= 2

\* C1 amended: with 2 or more start sentinel cells, or 2 or more end sentinel
\* cells, locate never returns a pair; the error is the duplicate-marker error
\* (carrying both document-wide counts) exactly when the positional scan found
\* both markers, MarkerNotFound(start) when no cell has the start sentinel, and
\* MarkerNotFound(end) when no cell after the first start cell has the end
\* sentinel.
C1_Duplicates ==
    (LocateOver /\ (Cardinality(StartCells) >= 2 \/ Cardinality(EndCells) >= 2)) =>
        /\ LocateRaised
        /\ err = IF StartCells = {} THEN "MarkerNotFoundStart"
                 ELSE IF EndCellsAfterStart = {} THEN "MarkerNotFoundEnd"
                 ELSE "DuplicateMarker"
        /\ err = "DuplicateMarker" =>
              /\ extra_starts = Cardinality(StartCells)
              /\ extra_ends = Cardinality(EndCells)

\* A second start sentinel cell lies behind the end cell the scan stopped at.
C1_Witness ==
    /\ LocateRaised
    /\ err = "DuplicateMarker"
    /\ Cardinality(EndCells) = 1
    /\ \E k \in StartCells : k > end_idx

---------------------------------------------------------------------------
\* C2

\* C2: with no start sentinel cell locate raises MarkerNotFound(start); with a
\* start sentinel cell but no end sentinel cell behind the first one it raises
\* MarkerNotFound(end); no pair is returned in either case.
C2_NotFound ==
    LocateOver =>
        /\ StartCells = {} => LocateRaised /\ err = "MarkerNotFoundStart"
        /\ (StartCells # {} /\ EndCellsAfterStart = {}) =>
              LocateRaised /\ err = "MarkerNotFoundEnd"

\* The end sentinel is in the document, only not behind the start cell.
C2_Witness ==
    /\ LocateRaised
    /\ err = "MarkerNotFoundEnd"
    /\ EndCells # {}
    /\ Cardinality(StartCells) >= 2

---------------------------------------------------------------------------
\* C3

\* C3: when the document has exactly one start sentinel cell and exactly one
\* end sentinel cell, and that one behind the start cell, locate returns
\* (start_idx, end_idx) with end_idx > start_idx, start_idx the lowest start
\* sentinel cell, end_idx the lowest end sentinel cell behind it, and each of
\* the two cells holding its sentinel as a full stripped line.
C3_Located ==
    (/\ LocateOver
     /\ Cardinality(StartCells) = 1
     /\ Cardinality(EndCells) = 1
     /\ EndCellsAfterStart # {}) =>
        /\ LocateReturned
        /\ end_idx > start_idx
        /\ start_idx = Lowest(StartCells)
        /\ end_idx = Lowest(EndCellsAfterStart)
        /\ ContainsMarker(CellSourceAsText(input_file[start_idx + 1]), start_marker)
        /\ ContainsMarker(CellSourceAsText(input_file[end_idx + 1]), end_marker)

\* Both markers are found in lines that carry whitespace around the sentinel.
C3_Witness ==
    /\ LocateReturned
    /\ CellSourceAsText(input_file[start_idx + 1]) # start_marker
    /\ CellSourceAsText(input_file[end_idx + 1]) # end_marker
    /\ end_idx > start_idx + 1

---------------------------------------------------------------------------
\* C4

\* C4: without the markers the selection is the e - s - 1 source cells at
\* indices s+1 .. e-1, in order; with them it is the e - s + 1 source cells at
\* s .. e, the start marker cell first and the end marker cell last.  The
\* written notebook has these cells, in this order.
C4_Slice ==
    /\ pc = "copy" =>
          /\ Len(selected_cells) =
                IF include_marker_cells THEN end_idx - start_idx + 1
                ELSE end_idx - start_idx - 1
          /\ \A k \in 1..Len(selected_cells) :
                selected_cells[k] = nb_cells[SourceIndex(k) + 1]
    /\ pc = "done" =>
          /\ Len(output_file.cells) =
                IF include_marker_cells THEN end_idx - start_idx + 1
                ELSE end_idx - start_idx - 1
          /\ \A k \in 1..Len(output_file.cells) :
                /\ output_file.cells[k].source = input_file[SourceIndex(k) + 1].source
                /\ output_file.cells[k].cell_type = input_file[SourceIndex(k) + 1].cell_type
                /\ ~include_marker_cells => SourceIndex(k) \notin {start_idx, end_idx}
          /\ include_marker_cells =>
                /\ SourceIndex(1) = start_idx
                /\ SourceIndex(Len(output_file.cells)) = end_idx

\* Marker cells next to each other, markers excluded: an output of no cells.
C4_Witness ==
    /\ pc = "done"
    /\ ~include_marker_cells
    /\ end_idx = start_idx + 1
    /\ output_file = [exists |-> TRUE, cells |-> <<>>]

---------------------------------------------------------------------------
\* C5

\* C5: every cell of the written notebook is its source cell, but that a code
\* cell has no outputs if clear_outputs and a null execution_count if
\* clear_execution_counts, each flag on its own; a cell that is not a code cell
\* is its source cell unchanged, without outputs or execution_count.
C5_Normalized ==
    pc = "done" =>
        \A k \in 1..Len(output_file.cells) :
            LET out == output_file.cells[k]
                src == input_file[SourceIndex(k) + 1]
            IN  IF src.cell_type = "code"
                THEN out = [src EXCEPT
                              !.outputs = IF clear_outputs THEN <<>> ELSE @,
                              !.execution_count =
                                  IF clear_execution_counts THEN None ELSE @]
                ELSE out = src /\ ~out.has_outputs /\ out.execution_count = Absent

\* One flag set and one not, on a code cell that has outputs and a count, next
\* to a cell that is not a code cell.
C5_Witness ==
    /\ pc = "done"
    /\ clear_outputs /\ ~clear_execution_counts
    /\ \E k \in 1..Len(output_file.cells) :
          /\ input_file[SourceIndex(k) + 1].cell_type = "code"
          /\ input_file[SourceIndex(k) + 1].outputs # <<>>
          /\ output_file.cells[k].execution_count > 0
    /\ \E k \in 1..Len(output_file.cells) : output_file.cells[k].cell_type # "code"

---------------------------------------------------------------------------
\* C6

\* C6: output_path is written only once locate has returned and every selected
\* cell is normalised: a run that raised has not created or changed the file, a
\* run that is not over has not either, and a run that succeeded has written it
\* exactly once, with the normalised selection.
C6_WriteLast ==
    /\ writes <= 1
    /\ pc = "done" <=> writes = 1
    /\ writes = 0 => output_file \in {NoFile, OldFile}
    /\ LocateRaised => writes = 0
    /\ writes = 1 =>
          /\ err = "none"
          /\ j = Len(selected_cells)
          /\ output_file.exists
          /\ ~mutated => output_file.cells = Values(heap, selected_cells)

\* A run that raised the duplicate-marker error, an older output file in place.
C6_Witness ==
    /\ LocateRaised
    /\ err = "DuplicateMarker"
    /\ output_file = OldFile

---------------------------------------------------------------------------
\* C7

\* The addresses of the outputs lists of the cell dicts at addrs
OutputsLists(addrs) ==
    {heap.cells[addrs[k]].outputs : k \in 1..Len(addrs)} \ {Absent}

\* C7: the source cells keep the values they were read with through the whole
\* run and through any later change a caller makes to an output cell; from the
\* deep copy on, no output cell dict and no outputs list of one is an object of
\* the source notebook.
C7_SourceUntouched ==
    /\ Values(heap, nb_cells) = input_file
    /\ pc \in {"normalize", "done"} =>
          /\ \A k \in 1..Len(selected_cells), n \in 1..Len(nb_cells) :
                selected_cells[k] # nb_cells[n]
          /\ OutputsLists(selected_cells) \cap OutputsLists(nb_cells) = {}

\* A caller has appended to the outputs list of an output cell whose outputs
\* the run did not clear.
C7_Witness ==
    /\ pc = "done"
    /\ mutated
    /\ ~clear_outputs
    /\ \E k \in 1..Len(selected_cells) :
          /\ CellValue(heap, selected_cells[k]).outputs # output_file.cells[k].outputs
          /\ input_file[SourceIndex(k) + 1].outputs = output_file.cells[k].outputs

---------------------------------------------------------------------------
\* C8

\* C8: normalising a second time changes nothing: not the cells the run has
\* just normalised, and not any input document normalised twice under any
\* setting of the two flags.
C8_Idempotent ==
    /\ (pc = "normalize" /\ j = Len(selected_cells)) =>
          Values(NormalizeAll(heap, selected_cells, clear_outputs,
                              clear_execution_counts), selected_cells)
             = Values(heap, selected_cells)
    /\ (pc = "scan" /\ i = 0) =>
          \A co \in BOOLEAN, ce \in BOOLEAN :
             LET once == NormalizeAll(heap, nb_cells, co, ce)
                 twice == NormalizeAll(once, nb_cells, co, ce)
             IN  Values(twice, nb_cells) = Values(once, nb_cells)

\* The run has cleared both the outputs and the count of some code cell.
C8_Witness ==
    /\ pc = "normalize" /\ j = Len(selected_cells)
    /\ clear_outputs /\ clear_execution_counts
    /\ \E k \in 1..Len(selected_cells) :
          LET src == input_file[SourceIndex(k) + 1]
          IN  /\ src.cell_type = "code"
              /\ src.outputs # <<>>
              /\ src.execution_count # None
              /\ CellValue(heap, selected_cells[k]).outputs = <<>>

---------------------------------------------------------------------------
\* C9

\* C9: at every step, whenever end_idx is set, start_idx is set and
\* end_idx > start_idx; the "end marker before start marker" error is never
\* raised, whatever the cells and the sentinels.
C9_OrderByConstruction ==
    /\ end_idx # None => (start_idx # None /\ end_idx > start_idx)
    /\ err # "MarkerOrderError"

\* The scan has set end_idx although the start cell itself holds the end
\* sentinel (both sentinels in one cell, or the two sentinels equal).
C9_Witness ==
    /\ end_idx # None
    /\ start_idx \in EndCells

---------------------------------------------------------------------------
\* C10

\* C10: locate returns a pair exactly when one cell of the document holds the
\* start sentinel, one cell holds the end sentinel, and the latter comes after
\* the former; so it raises whenever the two sentinels are equal.
C10_ReturnsIff ==
    LocateOver =>
        /\ LocateReturned <=>
              /\ Cardinality(StartCells) = 1
              /\ Cardinality(EndCells) = 1
              /\ \A s \in StartCells, e \in EndCells : e > s
        /\ start_marker = end_marker => LocateRaised

\* The only end sentinel cell is the start cell, or lies in front of it.
C10_Witness ==
    /\ LocateRaised
    /\ Cardinality(StartCells) = 1
    /\ Cardinality(EndCells) = 1
    /\ \A s \in StartCells, e \in EndCells : e <= s
    /\ start_marker # end_marker

====
